---- MODULE Spec2Model ----
(***************************************************************************)
(* A model of inotifyx (src/inotifyx/__init__.py): the mask vocabulary and *)
(* its formatter, the wire decoding of inotify_event records done by       *)
(* get_events_iter, and the life cycle of the Inotify session object.      *)
(*                                                                         *)
(* Representation of values.                                               *)
(*   - a byte is a number 0..255; a bytes object is a sequence of bytes;   *)
(*   - an unsigned 32-bit Python int (mask, cookie, a vocabulary value) is *)
(*     the set of the positions 0..31 of its 1 bits, because 0x80000000    *)
(*     and above exceed the integers of the model checker; & is then the   *)
(*     intersection and ^ the symmetric difference;                        *)
(*   - a signed 32-bit int (wd) and the name length are integers;          *)
(*   - a str is a sequence of code points; None and a str are told apart   *)
(*     by the field "some" of a name value.                                *)
(***************************************************************************)
EXTENDS Integers, Sequences, FiniteSets, TLC

VARIABLES
    obj,        \* the Inotify object: "none", "live" (constructed), "failed"
    fdSlot,     \* the descriptor number self.fd: "unset", "inotify" (the open
                \* channel), "free" (closed), "foreign" (reused by another open)
    selector,   \* self.selector: "unset", "created", "registered" (for fd),
                \* "closed"
    scope,      \* the with statement around the session: "out", "in", "left"
    closes,     \* number of calls of Inotify.close so far
    rawCloses,  \* number of invocations of os.close(self.fd) so far
    releases,   \* number of times the readiness registration was released
    gen,        \* the frame of the current get_events_iter call
    yielded,    \* the events the current call has yielded, in order
    rawbuf,     \* the bytes the raw read of the current call returned
    sent,       \* the records the kernel put into those bytes
    short,      \* how many bytes of the last of those records the read lacks
    prims,      \* the platform primitives the current call invoked, in order
    ret,        \* outcome of the last init, add_watch, rm_watch, close or exit
    libc,       \* the call into libc that operation made, if it made one
    dmask,      \* event.mask of the event whose description is asked for
    desc        \* the text get_mask_description returned, <<>> before the call

vars == <<obj, fdSlot, selector, scope, closes, rawCloses, releases, gen,
          yielded, rawbuf, sent, short, prims, ret, libc, dmask, desc>>

(***************************************************************************)
(* Bounds of the model.                                                    *)
(***************************************************************************)
MaxRecords == 2     \* records in one raw read
MaxDrop == 2        \* bytes a malformed read may lack at its end
MaxCloses == 2      \* calls of Inotify.close on one session
MaskWidth == 13     \* masks of the formatter range over the bits below this

(***************************************************************************)
(* Bytes, words and slices.                                                *)
(***************************************************************************)
Min(a, b) == IF a < b THEN a ELSE b

Max(a, b) == IF a > b THEN a ELSE b

\* Python's s[a:b] for 0 <= a <= b: the indices are clipped to the length.
Slice(s, a, b) == SubSeq(s, Min(a, Len(s)) + 1, Min(b, Len(s)))

\* Python's s[a:] for a >= 0.
SliceFrom(s, a) == SubSeq(s, Min(a, Len(s)) + 1, Len(s))

Pow2(i) == 2 ^ i

\* The 1 bits of a number below 2^16.
BitsOf16(n) == {i \in 0..15 : (n \div Pow2(i)) % 2 = 1}

\* The 32-bit value whose upper half is hi and whose lower half is lo.
W(hi, lo) == BitsOf16(lo) \cup {i + 16 : i \in BitsOf16(hi)}

BitAnd(a, b) == a \cap b

BitXor(a, b) == (a \ b) \cup (b \ a)

BitOr(a, b) == a \cup b

\* The 1 bits of a non-negative int below 2^31.
IntBits(n) == {i \in 0..30 : (n \div Pow2(i)) % 2 = 1}

(***************************************************************************)
(* The mask vocabulary (constants from include/sys/inotify.h).             *)
(***************************************************************************)
IN_ACCESS == W(\H0000, \H0001)

IN_MODIFY == W(\H0000, \H0002)

IN_ATTRIB == W(\H0000, \H0004)

IN_CLOSE_WRITE == W(\H0000, \H0008)

IN_CLOSE_NOWRITE == W(\H0000, \H0010)

IN_CLOSE == W(\H0000, \H0018)

IN_OPEN == W(\H0000, \H0020)

IN_MOVED_FROM == W(\H0000, \H0040)

IN_MOVED_TO == W(\H0000, \H0080)

IN_MOVE == W(\H0000, \H00c0)

IN_CREATE == W(\H0000, \H0100)

IN_DELETE == W(\H0000, \H0200)

IN_DELETE_SELF == W(\H0000, \H0400)

IN_MOVE_SELF == W(\H0000, \H0800)

IN_UNMOUNT == W(\H0000, \H2000)

IN_Q_OVERFLOW == W(\H0000, \H4000)

IN_IGNORED == W(\H0000, \H8000)

IN_ONLYDIR == W(\H0100, \H0000)

IN_DONT_FOLLOW == W(\H0200, \H0000)

IN_EXCL_UNLINK == W(\H0400, \H0000)

IN_MASK_CREATE == W(\H1000, \H0000)

IN_MASK_ADD == W(\H2000, \H0000)

IN_ISDIR == W(\H4000, \H0000)

IN_ONESHOT == W(\H8000, \H0000)

IN_ALL_EVENTS ==
    IN_ACCESS \cup IN_MODIFY \cup IN_ATTRIB \cup IN_CLOSE_WRITE
    \cup IN_CLOSE_NOWRITE \cup IN_OPEN \cup IN_MOVED_FROM \cup IN_MOVED_TO
    \cup IN_CREATE \cup IN_DELETE \cup IN_DELETE_SELF \cup IN_MOVE_SELF

\* ctypes.sizeof(_InotifyEvent): wd, mask, cookie, len, four bytes each.
SizeofInotifyEvent == 4 + 4 + 4 + 4

NAME_MAX == 255

BUF_LEN == Max(SizeofInotifyEvent + NAME_MAX + 1, 32768)

\* The module attributes whose name starts with IN_, in the order of their
\* assignment (the order a dict keeps), as the comprehension collects them.
InConstants ==
    << [name |-> "IN_ACCESS", value |-> IN_ACCESS],
       [name |-> "IN_MODIFY", value |-> IN_MODIFY],
       [name |-> "IN_ATTRIB", value |-> IN_ATTRIB],
       [name |-> "IN_CLOSE_WRITE", value |-> IN_CLOSE_WRITE],
       [name |-> "IN_CLOSE_NOWRITE", value |-> IN_CLOSE_NOWRITE],
       [name |-> "IN_CLOSE", value |-> IN_CLOSE],
       [name |-> "IN_OPEN", value |-> IN_OPEN],
       [name |-> "IN_MOVED_FROM", value |-> IN_MOVED_FROM],
       [name |-> "IN_MOVED_TO", value |-> IN_MOVED_TO],
       [name |-> "IN_MOVE", value |-> IN_MOVE],
       [name |-> "IN_CREATE", value |-> IN_CREATE],
       [name |-> "IN_DELETE", value |-> IN_DELETE],
       [name |-> "IN_DELETE_SELF", value |-> IN_DELETE_SELF],
       [name |-> "IN_MOVE_SELF", value |-> IN_MOVE_SELF],
       [name |-> "IN_UNMOUNT", value |-> IN_UNMOUNT],
       [name |-> "IN_Q_OVERFLOW", value |-> IN_Q_OVERFLOW],
       [name |-> "IN_IGNORED", value |-> IN_IGNORED],
       [name |-> "IN_ONLYDIR", value |-> IN_ONLYDIR],
       [name |-> "IN_DONT_FOLLOW", value |-> IN_DONT_FOLLOW],
       [name |-> "IN_EXCL_UNLINK", value |-> IN_EXCL_UNLINK],
       [name |-> "IN_MASK_CREATE", value |-> IN_MASK_CREATE],
       [name |-> "IN_MASK_ADD", value |-> IN_MASK_ADD],
       [name |-> "IN_ISDIR", value |-> IN_ISDIR],
       [name |-> "IN_ONESHOT", value |-> IN_ONESHOT],
       [name |-> "IN_ALL_EVENTS", value |-> IN_ALL_EVENTS] >>

\* The dict `constants` once the module is loaded: the IN_ attributes, then
\* the key BUF_LEN that the assignment of BUF_LEN adds to it.
constants == Append(InConstants, [name |-> "BUF_LEN", value |-> IntBits(BUF_LEN)])

(***************************************************************************)
(* InotifyEvent.get_mask_description.                                      *)
(***************************************************************************)
\* A test a slip would leave: any overlap counts.
MaskMatchesAnyOverlap(mask, value) == BitAnd(mask, value) # {}

\* overlap = self.mask & value; overlap and not overlap ^ value
MaskMatches(mask, value) ==
    LET overlap == BitAnd(mask, value)
    IN  overlap # {} /\ ~ (BitXor(overlap, value) # {})

\* parts after the loop over constants.items().
MaskParts(mask) ==
    LET f[i \in 0..Len(constants)] ==
            IF i = 0 THEN << >>
            ELSE IF MaskMatches(mask, constants[i].value)
                 THEN Append(f[i - 1], constants[i].name)
                 ELSE f[i - 1]
    IN  f[Len(constants)]

\* sep.join(parts): the text as the sequence of its pieces.
Join(sep, parts) ==
    LET f[i \in 0..Len(parts)] ==
            IF i = 0 THEN << >>
            ELSE IF i = 1 THEN << parts[1] >>
            ELSE f[i - 1] \o << sep, parts[i] >>
    IN  f[Len(parts)]

get_mask_description(mask) ==
    LET parts == MaskParts(mask)
    IN  IF parts # << >> THEN Join("|", parts) ELSE << "0" >>

(***************************************************************************)
(* The ctypes overlay of _InotifyEvent on the first bytes of the buffer    *)
(* (native layout of Linux on a little-endian machine).                    *)
(***************************************************************************)
\* ctypes.c_uint32 read from four bytes: byte k holds the bits 8k..8k+7.
c_uint32(b) == {i \in 0..31 : (b[(i \div 8) + 1] \div Pow2(i % 8)) % 2 = 1}

\* ctypes.c_uint32 as the int the slices use. Values from 2^30 up stand as
\* 2^30: len is only tested for > 0 and used as a slice bound on at most
\* BUF_LEN bytes, for which all of them behave alike.
c_uint32_int(b) ==
    IF b[4] >= 64 THEN 1073741824
    ELSE b[1] + 256 * b[2] + 65536 * b[3] + 16777216 * b[4]

\* A slip: the field read as if it were unsigned.
c_int_lowbits(b) == b[1] + 256 * b[2] + 65536 * b[3] + 16777216 * (b[4] % 128)

\* ctypes.c_int read from four bytes: two's complement.
c_int(b) ==
    LET low == b[1] + 256 * b[2] + 65536 * b[3] + 16777216 * (b[4] % 128)
    IN  IF b[4] >= 128 THEN (low - 2147483647) - 1 ELSE low

\* _InotifyEvent.from_buffer_copy(b): ValueError when b is too small.
from_buffer_copy(b) ==
    IF Len(b) < SizeofInotifyEvent
    THEN [ok |-> FALSE, wd |-> 0, mask |-> {}, cookie |-> {}, len |-> 0]
    ELSE [ok |-> TRUE,
          wd |-> c_int(SubSeq(b, 1, 4)),
          mask |-> c_uint32(SubSeq(b, 5, 8)),
          cookie |-> c_uint32(SubSeq(b, 9, 12)),
          len |-> c_uint32_int(SubSeq(b, 13, 16))]

(***************************************************************************)
(* bytes.rstrip(b'\x00') and bytes.decode() (strict UTF-8).                *)
(***************************************************************************)
RECURSIVE rstrip_nul(_)
rstrip_nul(b) ==
    IF b = << >> \/ b[Len(b)] # 0 THEN b ELSE rstrip_nul(SubSeq(b, 1, Len(b) - 1))

IsCont(x) == x \in 128..191

\* Length of the well-formed UTF-8 sequence that starts at b[i]; 0 when the
\* bytes there are no well-formed sequence.
Utf8SeqLen(b, i) ==
    LET n == Len(b)
        b0 == b[i]
        c1 == IF i + 1 <= n THEN b[i + 1] ELSE 0
        c2 == IF i + 2 <= n THEN b[i + 2] ELSE 0
        c3 == IF i + 3 <= n THEN b[i + 3] ELSE 0
    IN  IF b0 < 128 THEN 1
        ELSE IF b0 \in 194..223 THEN (IF IsCont(c1) THEN 2 ELSE 0)
        ELSE IF b0 = 224 THEN (IF c1 \in 160..191 /\ IsCont(c2) THEN 3 ELSE 0)
        ELSE IF b0 = 237 THEN (IF c1 \in 128..159 /\ IsCont(c2) THEN 3 ELSE 0)
        ELSE IF b0 \in 225..239 THEN (IF IsCont(c1) /\ IsCont(c2) THEN 3 ELSE 0)
        ELSE IF b0 = 240
             THEN (IF c1 \in 144..191 /\ IsCont(c2) /\ IsCont(c3) THEN 4 ELSE 0)
        ELSE IF b0 \in 241..243
             THEN (IF IsCont(c1) /\ IsCont(c2) /\ IsCont(c3) THEN 4 ELSE 0)
        ELSE IF b0 = 244
             THEN (IF c1 \in 128..143 /\ IsCont(c2) /\ IsCont(c3) THEN 4 ELSE 0)
        ELSE 0

\* The code point of the well-formed sequence of k bytes at b[i].
Utf8CodePoint(b, i, k) ==
    IF k = 1 THEN b[i]
    ELSE IF k = 2 THEN (b[i] % 32) * 64 + (b[i + 1] % 64)
    ELSE IF k = 3 THEN (b[i] % 16) * 4096 + (b[i + 1] % 64) * 64 + (b[i + 2] % 64)
    ELSE (b[i] % 8) * 262144 + (b[i + 1] % 64) * 4096
         + (b[i + 2] % 64) * 64 + (b[i + 3] % 64)

\* b[i..].decode(): ok and the text, or not ok (UnicodeDecodeError).
RECURSIVE decode_from(_, _)
decode_from(b, i) ==
    IF i > Len(b) THEN [ok |-> TRUE, text |-> << >>]
    ELSE LET k == Utf8SeqLen(b, i)
         IN  IF k = 0 THEN [ok |-> FALSE, text |-> << >>]
             ELSE LET rest == decode_from(b, i + k)
                  IN  [ok |-> rest.ok,
                       text |-> IF rest.ok
                                THEN << Utf8CodePoint(b, i, k) >> \o rest.text
                                ELSE << >>]

\* A slip: bytes that are not UTF-8 are dropped instead of reported.
decode_ignore(b) == [ok |-> TRUE, text |-> decode_from(b, 1).text]

decode(b) == decode_from(b, 1)

\* A name value: None, or a str.
None == [some |-> FALSE, text |-> << >>]

Str(t) == [some |-> TRUE, text |-> t]

\* A slip: the empty str is kept.
KeepEmpty(t) == Str(t)

\* text or None
OrNone(t) == IF t # << >> THEN Str(t) ELSE None

InotifyEvent(wd, mask, cookie, name) ==
    [wd |-> wd, mask |-> mask, cookie |-> cookie, name |-> name]

(***************************************************************************)
(* The kernel's side of the wire: what a raw read of the channel returns.  *)
(***************************************************************************)
\* The four bytes of a signed 32-bit int, least significant first.
PackInt(n) ==
    LET low == IF n < 0 THEN (n + 2147483647) + 1 ELSE n
    IN  << low % 256, (low \div 256) % 256, (low \div 65536) % 256,
           ((low \div 16777216) % 128) + (IF n < 0 THEN 128 ELSE 0) >>

\* The four bytes of an unsigned 32-bit value given by its 1 bits.
PackBits(bits) ==
    [k \in 1..4 |->
        LET bit(j) == IF (8 * (k - 1) + j) \in bits THEN Pow2(j) ELSE 0
        IN  bit(0) + bit(1) + bit(2) + bit(3) + bit(4) + bit(5) + bit(6) + bit(7)]

\* The UTF-8 bytes of a text (a file name as the file system stores it).
RECURSIVE Utf8Encode(_)
Utf8Encode(t) ==
    IF t = << >> THEN << >>
    ELSE LET c == Head(t)
             enc == IF c < 128 THEN << c >>
                    ELSE IF c < 2048 THEN << 192 + (c \div 64), 128 + (c % 64) >>
                    ELSE IF c < 65536
                         THEN << 224 + (c \div 4096), 128 + ((c \div 64) % 64),
                                 128 + (c % 64) >>
                    ELSE << 240 + (c \div 262144), 128 + ((c \div 4096) % 64),
                            128 + ((c \div 64) % 64), 128 + (c % 64) >>
         IN  enc \o Utf8Encode(Tail(t))

Nuls(k) == [i \in 1..k |-> 0]

\* One inotify_event on the wire: the header, then len bytes of name field.
KernelRecord(r) ==
    PackInt(r.wd) \o PackBits(r.mask) \o PackBits(r.cookie)
    \o PackInt(Len(r.field)) \o r.field

RECURSIVE KernelBuffer(_)
KernelBuffer(recs) ==
    IF recs = << >> THEN << >>
    ELSE KernelRecord(Head(recs)) \o KernelBuffer(Tail(recs))

\* The texts of the names the bounded kernel reports: "foo", and a name of
\* a two-, a three- and a four-byte character (U+E9, U+20AC, U+1F600).
Texts == { << 102, 111, 111 >>, << 233, 8364, 128512 >> }

AllBits == W(\HFFFF, \HFFFF)

\* The records the bounded kernel may queue.
Records ==
    { \* a file "foo" created in the watched directory
      [wd |-> 1, mask |-> IN_CREATE, cookie |-> {},
       field |-> Utf8Encode(<< 102, 111, 111 >>) \o Nuls(1)],
      \* the queue overflowed: wd is -1 and there is no name
      [wd |-> -1, mask |-> IN_Q_OVERFLOW, cookie |-> {}, field |-> << >>],
      \* a directory moved away: the largest wd, a cookie, a padded name
      [wd |-> 2147483647, mask |-> BitOr(IN_MOVED_FROM, BitOr(IN_ISDIR, IN_ONESHOT)),
       cookie |-> W(\HFFFF, \HFFFE),
       field |-> Utf8Encode(<< 233, 8364, 128512 >>) \o Nuls(3)],
      \* the smallest wd, every mask bit, a name field that is padding only
      [wd |-> (-2147483647) - 1, mask |-> AllBits, cookie |-> W(\H8000, \H0001),
       field |-> Nuls(2)],
      \* a file name that is not UTF-8 (Linux file names are arbitrary bytes)
      [wd |-> 1, mask |-> IN_MODIFY, cookie |-> {}, field |-> << 255, 0 >>] }

RecordSeqs == UNION {[1..k -> Records] : k \in 0..MaxRecords}

\* The bytes a read returns when the last d bytes of the records are missing.
Truncated(recs, d) ==
    LET b == KernelBuffer(recs) IN SubSeq(b, 1, Len(b) - Min(d, Len(b)))

(***************************************************************************)
(* get_events_iter: the generator, from one suspension to the next.        *)
(* A frame is the generator's state while it is suspended:                 *)
(*   pc       "none" (no call), "created" (not started), "yielded"         *)
(*            (suspended at a yield), "done" (exhausted), "error" (raised) *)
(*   timeout  the argument: "None", "zero" or "positive"                   *)
(*   keys     ready keys of the select the for loop has still to visit     *)
(*   buf, len the locals buf and event.len                                 *)
(*   err, at  the exception raised and the call that raised it             *)
(* A step result is a frame with the events it yields (out, none or one)   *)
(* and the primitives invoked so far (p).                                  *)
(***************************************************************************)
offset == SizeofInotifyEvent

Timeouts == {"None", "zero", "positive"}

NoFrame ==
    [pc |-> "none", timeout |-> "None", keys |-> 0, buf |-> << >>, len |-> 0,
     err |-> "none", at |-> "none"]

NewFrame(timeout) == [NoFrame EXCEPT !.pc = "created", !.timeout = timeout]

\* A slip: the exception is swallowed and the generator just ends.
Swallow(f, err, at, p) ==
    [pc |-> "done", timeout |-> f.timeout, keys |-> f.keys, buf |-> f.buf,
     len |-> f.len, err |-> "none", at |-> "none", out |-> << >>, p |-> p]

Raise(f, err, at, p) ==
    [pc |-> "error", timeout |-> f.timeout, keys |-> f.keys, buf |-> f.buf,
     len |-> f.len, err |-> err, at |-> at, out |-> << >>, p |-> p]

Yield(f, ev, p) ==
    [pc |-> "yielded", timeout |-> f.timeout, keys |-> f.keys, buf |-> f.buf,
     len |-> f.len, err |-> "none", at |-> "none", out |-> << ev >>, p |-> p]

Stop(f, p) ==
    [pc |-> "done", timeout |-> f.timeout, keys |-> f.keys, buf |-> f.buf,
     len |-> f.len, err |-> "none", at |-> "none", out |-> << >>, p |-> p]

\* The frame a step result leaves behind.
FrameOf(r) ==
    [pc |-> r.pc, timeout |-> r.timeout, keys |-> r.keys, buf |-> r.buf,
     len |-> r.len, err |-> r.err, at |-> r.at]

\* One pass of the body of `while buf:` up to its yield, buf not empty.
WhileBody(f, p) ==
    LET event == from_buffer_copy(Slice(f.buf, 0, offset))
        g == [f EXCEPT !.len = event.len]
    IN  IF ~ event.ok THEN Raise(f, "ValueError", "from_buffer_copy", p)
        ELSE IF event.len > 0
        THEN LET name == Slice(f.buf, offset, offset + event.len)
                 text == decode(rstrip_nul(name))
             IN  IF ~ text.ok THEN Raise(g, "UnicodeDecodeError", "decode", p)
                 ELSE Yield(g, InotifyEvent(event.wd, event.mask, event.cookie,
                                            OrNone(text.text)), p)
        ELSE Yield(g, InotifyEvent(event.wd, event.mask, event.cookie, None), p)

\* A slip: the name bytes are not skipped.
AdvanceHeaderOnly(buf, len) == SliceFrom(buf, offset)

\* A slip: the len field is not counted in the size of the header.
AdvanceShort(buf, len) == SliceFrom(buf, 4 + 4 + 4 + len)

\* buf = buf[offset + event.len:]
Advance(buf, len) == SliceFrom(buf, offset + len)

\* An entry of the log of primitives: the call and how it ended. A select
\* on a closed selector ends in ValueError before any wait.
Call(prim, res) == [prim |-> prim, res |-> res]

\* The outcomes of selector.select(timeout=timeout) on an open selector.
SelectOutcomes(timeout) ==
    IF timeout = "None" THEN {"ready", "interrupt"}
    ELSE {"ready", "timeout", "interrupt"}

\* A slip: the descriptor is reported although the wait timed out.
SelectKeysAlways(outcome) == 1

\* A slip: the descriptor is reported once per registration made for it.
SelectKeysTwice(outcome) == IF outcome = "ready" THEN 2 ELSE 0

\* The number of (key, mask) pairs select returns: the one registered
\* descriptor when it is readable, none when the wait timed out.
SelectKeys(outcome) == IF outcome = "ready" THEN 1 ELSE 0

\* The for loop from its next key on. rd is what os.read(fd, BUF_LEN) gives:
\* a failure, or the bytes queued (at most BUF_LEN of them).
RECURSIVE ForKeys(_, _, _)
ForKeys(f, rd, p) ==
    IF f.keys = 0 THEN Stop(f, p)
    ELSE LET q == Append(p, Call("read", IF rd.fail THEN "fail" ELSE "ok"))
             g == [f EXCEPT !.keys = f.keys - 1]
         IN  IF rd.fail THEN Raise(g, "OSError", "read", q)
             ELSE LET h == [g EXCEPT !.buf = Slice(rd.buf, 0, BUF_LEN)]
                  IN  IF h.buf # << >> THEN WhileBody(h, q) ELSE ForKeys(h, rd, q)

\* A slip: an interrupted wait is taken for a wait that found nothing ready.
StartInterruptEmpty(f, sel, outcome, rd, p) ==
    IF sel # "registered"
    THEN Raise(f, "ValueError", "select", Append(p, Call("select", "ValueError")))
    ELSE ForKeys([f EXCEPT !.keys = SelectKeys(outcome)], rd,
                 Append(p, Call("select", outcome)))

\* The first next(): select, then the for loop. sel is the selector's state.
Start(f, sel, outcome, rd, p) ==
    IF sel # "registered"
    THEN Raise(f, "ValueError", "select", Append(p, Call("select", "ValueError")))
    ELSE LET q == Append(p, Call("select", outcome))
         IN  IF outcome = "interrupt" THEN Raise(f, "KeyboardInterrupt", "select", q)
             ELSE ForKeys([f EXCEPT !.keys = SelectKeys(outcome)], rd, q)

\* A later next(): the statement after the yield, then the loops.
Resume(f, rd, p) ==
    LET g == [f EXCEPT !.buf = Advance(f.buf, f.len)]
    IN  IF g.buf # << >> THEN WhileBody(g, p) ELSE ForKeys(g, rd, p)

Step(f, sel, outcome, rd, p) ==
    IF f.pc = "created" THEN Start(f, sel, outcome, rd, p) ELSE Resume(f, rd, p)

\* list(generator): next() until the generator is exhausted or raises.
RECURSIVE Drain(_, _, _, _, _, _)
Drain(f, sel, outcome, rd, p, ys) ==
    LET r == Step(f, sel, outcome, rd, p)
    IN  IF r.pc = "yielded"
        THEN Drain(FrameOf(r), sel, outcome, rd, r.p, ys \o r.out)
        ELSE [r EXCEPT !.out = ys]

(***************************************************************************)
(* The platform primitives as the environment answers them.                *)
(***************************************************************************)
\* What the read of one call returns: a failure, or the records queued,
\* possibly short of their last d bytes.
NoRead == [fail |-> FALSE, recs |-> << >>, short |-> 0, buf |-> << >>]

ReadChoices ==
    {[fail |-> TRUE, recs |-> << >>, short |-> 0, buf |-> << >>]} \cup
    UNION {{[fail |-> FALSE, recs |-> recs, short |-> d, buf |-> Truncated(recs, d)] :
               d \in 0..Min(MaxDrop, Len(KernelBuffer(recs)))} : recs \in RecordSeqs}

ReadResult(rc) == [fail |-> rc.fail, buf |-> rc.buf]

\* Number of raw reads in a log of primitives.
Reads(p) == Cardinality({i \in 1..Len(p) : p[i].prim = "read"})

\* Number of readiness waits in a log of primitives.
Waits(p) == Cardinality({i \in 1..Len(p) : p[i].prim = "select"})

\* errno values: EBADF, EINVAL, EMFILE, ENOSPC.
EBADF == 9

EINVAL == 22

EMFILE == 24

ENOSPC == 28

\* What libc may answer to a call on the descriptor number: the result and
\* the errno it leaves. Success only while the number is the open channel;
\* EBADF for a number that is not open, EINVAL for one that another open
\* has taken.
LibcResults(slot, good, errs) ==
    IF slot = "inotify"
    THEN {[res |-> g, errno |-> 0] : g \in good} \cup {[res |-> -1, errno |-> e] : e \in errs}
    ELSE {[res |-> -1, errno |-> IF slot = "foreign" THEN EINVAL ELSE EBADF]}

\* A call into libc: the function, the state of the descriptor number it
\* was given, and the answer.
NoLibc == [fn |-> "none", on |-> "none", res |-> 0, errno |-> 0]

LibcCall(fn, slot, a) == [fn |-> fn, on |-> slot, res |-> a.res, errno |-> a.errno]

(***************************************************************************)
(* init, add_watch, rm_watch: the result r of the libc call decides; errno *)
(* is what ctypes.get_errno() gives after it.                              *)
(***************************************************************************)
NoRet == [op |-> "none", raised |-> FALSE, val |-> 0, exc |-> "none", arg |-> << >>]

\* os.strerror(errno): the message of the error number.
strerror(errno) == << "strerror", errno >>

\* return value
Return(op, value) ==
    [op |-> op, raised |-> FALSE, val |-> value, exc |-> "none", arg |-> << >>]

\* raise IOError(os.strerror(ctypes.get_errno()))
RaiseIOError(op, errno) ==
    [op |-> op, raised |-> TRUE, val |-> 0, exc |-> "IOError", arg |-> strerror(errno)]

\* A slip: the result of libc is returned without the test for failure.
add_watch_unchecked(r, errno) == Return("add_watch", r)

init(r, errno) ==
    IF r < 0 THEN RaiseIOError("init", errno) ELSE Return("init", r)

add_watch(r, errno) ==
    IF r < 0 THEN RaiseIOError("add_watch", errno) ELSE Return("add_watch", r)

rm_watch(r, errno) ==
    IF r < 0 THEN RaiseIOError("rm_watch", errno) ELSE Return("rm_watch", r)

(***************************************************************************)
(* The state after the module is loaded, and the operations.               *)
(***************************************************************************)
Init ==
    /\ obj = "none"
    /\ fdSlot = "unset"
    /\ selector = "unset"
    /\ scope = "out"
    /\ closes = 0
    /\ rawCloses = 0
    /\ releases = 0
    /\ gen = NoFrame
    /\ yielded = << >>
    /\ rawbuf = << >>
    /\ sent = << >>
    /\ short = 0
    /\ prims = << >>
    /\ ret = NoRet
    /\ libc = NoLibc
    /\ dmask = {}
    /\ desc = << >>

callVars == <<gen, yielded, rawbuf, sent, short, prims>>

sessionVars == <<obj, fdSlot, selector, scope, closes, rawCloses, releases>>

maskVars == <<dmask, desc>>

\* No generator is suspended in the middle of a call.
Quiet == gen.pc \in {"none", "done", "error"}

ForgetCall ==
    /\ gen' = NoFrame
    /\ yielded' = << >>
    /\ rawbuf' = << >>
    /\ sent' = << >>
    /\ short' = 0
    /\ prims' = << >>

\* Inotify(): init(), DefaultSelector(), selector.register(). The first of
\* the three that fails raises out of the constructor.
InotifyInit ==
    /\ obj = "none"
    /\ \E a \in LibcResults("inotify", {3}, {EMFILE}),
          failing \in {"none", "selector", "register"} :
         LET res == init(a.res, a.errno)
         IN  /\ ret' = res
             /\ libc' = LibcCall("inotify_init", "none", a)
             /\ IF res.raised
                THEN /\ obj' = "failed"
                     /\ UNCHANGED <<fdSlot, selector>>
                ELSE /\ fdSlot' = "inotify"
                     /\ obj' = IF failing = "none" THEN "live" ELSE "failed"
                     /\ selector' = IF failing = "none" THEN "registered"
                                    ELSE IF failing = "register" THEN "created"
                                    ELSE "unset"
    /\ UNCHANGED <<scope, closes, rawCloses, releases>>
    /\ UNCHANGED callVars
    /\ UNCHANGED maskVars

\* with ... as inotify: __enter__ returns self.
Enter ==
    /\ obj = "live"
    /\ scope = "out"
    /\ scope' = "in"
    /\ UNCHANGED <<obj, fdSlot, selector, closes, rawCloses, releases, ret, libc>>
    /\ UNCHANGED callVars
    /\ UNCHANGED maskVars

\* Inotify.close: selector.close(), then os.close(self.fd). Closing a closed
\* selector does nothing; os.close of a number that is free raises OSError,
\* of a number another open has taken closes that other descriptor.
close(op) ==
    /\ closes' = closes + 1
    /\ selector' = "closed"
    /\ releases' = IF selector = "registered" THEN releases + 1 ELSE releases
    /\ rawCloses' = rawCloses + 1
    /\ fdSlot' = "free"
    /\ ret' = [op |-> op, raised |-> (fdSlot = "free"), val |-> 0,
               exc |-> IF fdSlot = "free" THEN "OSError" ELSE "none",
               arg |-> IF fdSlot = "free" THEN strerror(EBADF) ELSE << >>]
    /\ libc' = NoLibc

Close ==
    /\ obj = "live"
    /\ closes < MaxCloses
    /\ close("close")
    /\ UNCHANGED <<obj, scope>>
    /\ UNCHANGED callVars
    /\ UNCHANGED maskVars

\* The ways a with block is left: its end, a return, an exception.
ExitWays == {"exit_normal", "exit_return", "exit_raise"}

\* Leaving the with block: __exit__(*args) calls self.close() whatever args
\* are, and returns None.
Exit ==
    /\ scope = "in"
    /\ scope' = "left"
    /\ \E how \in ExitWays : close("__exit__")
    /\ UNCHANGED obj
    /\ UNCHANGED callVars
    /\ UNCHANGED maskVars

\* Another part of the process opens a file and is given the freed number.
ForeignOpen ==
    /\ fdSlot = "free"
    /\ fdSlot' = "foreign"
    /\ UNCHANGED <<obj, selector, scope, closes, rawCloses, releases, ret, libc>>
    /\ UNCHANGED callVars
    /\ UNCHANGED maskVars

\* Inotify.add_watch(path, mask): add_watch(self.fd, path, mask).
AddWatch ==
    /\ obj = "live"
    /\ Quiet
    /\ \E a \in LibcResults(fdSlot, {1, 2}, {ENOSPC}) :
         /\ ret' = add_watch(a.res, a.errno)
         /\ libc' = LibcCall("inotify_add_watch", fdSlot, a)
    /\ ForgetCall
    /\ UNCHANGED sessionVars
    /\ UNCHANGED maskVars

\* Inotify.rm_watch(wd): rm_watch(self.fd, wd).
RmWatch ==
    /\ obj = "live"
    /\ Quiet
    /\ \E a \in LibcResults(fdSlot, {0}, {EINVAL}) :
         /\ ret' = rm_watch(a.res, a.errno)
         /\ libc' = LibcCall("inotify_rm_watch", fdSlot, a)
    /\ ForgetCall
    /\ UNCHANGED sessionVars
    /\ UNCHANGED maskVars

\* Inotify.get_events(timeout): calling a generator function runs none of
\* its body; the frame only holds the arguments.
GetEvents ==
    /\ obj = "live"
    /\ Quiet
    /\ \E timeout \in Timeouts : gen' = NewFrame(timeout)
    /\ yielded' = << >>
    /\ rawbuf' = << >>
    /\ sent' = << >>
    /\ short' = 0
    /\ prims' = << >>
    /\ ret' = NoRet
    /\ libc' = NoLibc
    /\ UNCHANGED sessionVars
    /\ UNCHANGED maskVars

\* A slip: the selector is closed when the generator raises, as it would be
\* under `with self.selector:`.
SelectorClosedOnError(sel, r) == IF r.pc = "error" THEN "closed" ELSE sel

\* Inotify.get_events delegates to the generator with the session's own
\* selector and has no with, try or finally around it: however a step ends,
\* the selector is left as it was.
SelectorAfter(sel, r) == sel

\* next() on the generator: it runs to its next yield, its end or a raise.
GenNext ==
    /\ gen.pc \in {"created", "yielded"}
    /\ \E outcome \in (IF gen.pc = "created" /\ selector = "registered"
                       THEN SelectOutcomes(gen.timeout) ELSE {"ready"}) :
       \E rc \in (IF gen.pc = "created" /\ selector = "registered"
                     /\ SelectKeys(outcome) > 0
                  THEN ReadChoices ELSE {NoRead}) :
         LET rd == ReadResult(rc)
             r == Step(gen, selector, outcome, rd, prims)
         IN  /\ gen' = FrameOf(r)
             /\ selector' = SelectorAfter(selector, r)
             /\ yielded' = yielded \o r.out
             /\ prims' = r.p
             /\ IF Reads(r.p) > Reads(prims) /\ ~ rd.fail
                THEN /\ sent' = rc.recs
                     /\ short' = rc.short
                     /\ rawbuf' = Slice(rd.buf, 0, BUF_LEN)
                ELSE UNCHANGED <<sent, short, rawbuf>>
    /\ UNCHANGED <<ret, libc>>
    /\ UNCHANGED <<obj, fdSlot, scope, closes, rawCloses, releases>>
    /\ UNCHANGED maskVars

\* get_events(fd, timeout) of the module, called with the session's
\* descriptor: a selector of its own, registered for fd and closed on the
\* way out, and the whole generator drained into a list, which is returned
\* unless a step raised. Registering a number that is not open raises.
GetEventsList ==
    /\ obj = "live"
    /\ gen.pc = "none"
    /\ \E timeout \in Timeouts :
       \E outcome \in SelectOutcomes(timeout) :
       \E rc \in (IF fdSlot = "inotify" /\ SelectKeys(outcome) > 0
                  THEN ReadChoices ELSE {NoRead}) :
         LET rd == ReadResult(rc)
             f == NewFrame(timeout)
             r == IF fdSlot = "free" THEN Raise(f, "OSError", "register", << >>)
                  ELSE Drain(f, "registered", outcome, rd, << >>, << >>)
         IN  /\ gen' = FrameOf(r)
             /\ yielded' = r.out
             /\ prims' = r.p
             /\ IF Reads(r.p) > 0 /\ ~ rd.fail
                THEN /\ sent' = rc.recs
                     /\ short' = rc.short
                     /\ rawbuf' = Slice(rd.buf, 0, BUF_LEN)
                ELSE /\ sent' = << >>
                     /\ short' = 0
                     /\ rawbuf' = << >>
             /\ ret' = [op |-> "get_events", raised |-> (r.pc = "error"),
                        val |-> IF r.pc = "error" THEN 0 ELSE Len(r.out),
                        exc |-> r.err, arg |-> << >>]
             /\ libc' = NoLibc
    /\ UNCHANGED sessionVars
    /\ UNCHANGED maskVars

Next ==
    \/ InotifyInit
    \/ Enter
    \/ Close
    \/ Exit
    \/ ForeignOpen
    \/ AddWatch
    \/ RmWatch
    \/ GetEvents
    \/ GenNext
    \/ GetEventsList

Spec == Init /\ [][Next]_vars

(***************************************************************************)
(* The formatter on its own: any mask a caller may build an event with.    *)
(***************************************************************************)
HighSample == {14, 15, 30, 31}

Masks == {lo \cup hi : lo \in SUBSET (0..(MaskWidth - 1)), hi \in SUBSET HighSample}

InitMask ==
    /\ obj = "none"
    /\ fdSlot = "unset"
    /\ selector = "unset"
    /\ scope = "out"
    /\ closes = 0
    /\ rawCloses = 0
    /\ releases = 0
    /\ gen = NoFrame
    /\ yielded = << >>
    /\ rawbuf = << >>
    /\ sent = << >>
    /\ short = 0
    /\ prims = << >>
    /\ ret = NoRet
    /\ libc = NoLibc
    /\ dmask \in Masks
    /\ desc = << >>

\* event.get_mask_description()
Describe ==
    /\ desc' = get_mask_description(dmask)
    /\ UNCHANGED dmask
    /\ UNCHANGED sessionVars
    /\ UNCHANGED callVars
    /\ UNCHANGED <<ret, libc>>

NextMask == Describe

SpecMask == InitMask /\ [][NextMask]_vars

(***************************************************************************)
(* Properties.                                                             *)
(***************************************************************************)
\* The generator of the current call has run.
Started == gen.pc \in {"yielded", "done", "error"}

\* The raw read of the current call returned bytes.
ReadReturned == \E i \in 1..Len(prims) : prims[i] = Call("read", "ok")

\* The bytes read are whole records: each header with exactly len name bytes.
ValidBuffer == ReadReturned /\ short = 0

\* The name fields that are the UTF-8 bytes of a text (or nothing), padded
\* with NULs.
TextFields ==
    {f \in {r.field : r \in Records} :
        \E t \in Texts \cup {<< >>} : \E k \in 0..Len(f) : f = Utf8Encode(t) \o Nuls(k)}

TextName(r) == r.field \in TextFields

\* The text such a field holds.
TextOf ==
    [f \in TextFields |->
        CHOOSE t \in Texts \cup {<< >>} : \E k \in 0..Len(f) : f = Utf8Encode(t) \o Nuls(k)]

\* The bytes a decoded name stands for.
NameBytes(n) == IF n.some THEN Utf8Encode(n.text) ELSE << >>

\* The event carries the fields of the record: the header values, and the
\* name field up to its NUL padding.
Carries(ev, r) ==
    /\ ev.wd = r.wd
    /\ ev.mask = r.mask
    /\ ev.cookie = r.cookie
    /\ LET nb == NameBytes(ev.name)
       IN  /\ Len(nb) <= Len(r.field)
           /\ SubSeq(r.field, 1, Len(nb)) = nb
           /\ \A j \in (Len(nb) + 1)..Len(r.field) : r.field[j] = 0

\* C1 as stated: a buffer of N whole records (header plus exactly len name
\* bytes) decodes to exactly N events, the i-th carrying the i-th record's
\* fields, with no byte left over.
C1_AnyValidBuffer ==
    (gen.pc \in {"done", "error"} /\ ValidBuffer) =>
        /\ gen.pc = "done"
        /\ Len(yielded) = Len(sent)
        /\ \A i \in 1..Len(yielded) : Carries(yielded[i], sent[i])
        /\ gen.buf = << >>

\* C1 amended: a buffer of N whole records whose name bytes are UTF-8 text
\* once the trailing NULs are stripped decodes to exactly N events in buffer
\* order, the i-th carrying the i-th record's fields, without an error and
\* with no byte left over at the end.
C1_MultiRecord ==
    (Started /\ ValidBuffer /\ \A i \in 1..Len(sent) : TextName(sent[i])) =>
        /\ gen.pc # "error"
        /\ Len(yielded) <= Len(sent)
        /\ \A i \in 1..Len(yielded) : Carries(yielded[i], sent[i])
        /\ gen.pc = "done" => (Len(yielded) = Len(sent) /\ gen.buf = << >>)

C1_Witness ==
    /\ gen.pc = "done"
    /\ ValidBuffer
    /\ Len(sent) = 2
    /\ sent[1] # sent[2]
    /\ \A i \in 1..2 : TextName(sent[i]) /\ sent[i].field # << >>
    /\ Len(yielded) = 2

\* C2: decoding the encoding of (wd, mask, cookie, name), the name absent or
\* a text followed by NUL padding, gives back the same wd, mask and cookie
\* and the same name (absent when nothing is left of the field); wd -1 with
\* IN_Q_OVERFLOW comes through as -1, and no such record raises an error.
C2_RoundTrip ==
    (Started /\ ValidBuffer) =>
        /\ \A i \in 1..Len(yielded) :
             TextName(sent[i]) =>
                LET t == TextOf[sent[i].field]
                IN  yielded[i] = InotifyEvent(sent[i].wd, sent[i].mask, sent[i].cookie,
                                              IF t = << >> THEN None ELSE Str(t))
        /\ \A i \in 1..Len(yielded) :
             (sent[i].wd = -1 /\ IN_Q_OVERFLOW \subseteq sent[i].mask) =>
                (yielded[i].wd = -1 /\ IN_Q_OVERFLOW \subseteq yielded[i].mask)
        /\ (gen.pc = "error" /\ gen.at \in {"from_buffer_copy", "decode"}) =>
             (Len(yielded) < Len(sent) /\ ~ TextName(sent[Len(yielded) + 1]))

C2_Witness ==
    /\ ValidBuffer
    /\ Len(yielded) = 2
    /\ \E i \in 1..2 : yielded[i].wd = -1 /\ yielded[i].mask = IN_Q_OVERFLOW
                       /\ yielded[i].name = None
    /\ \E i \in 1..2 : yielded[i].wd = 2147483647 /\ 31 \in yielded[i].mask
                       /\ yielded[i].cookie = W(\HFFFF, \HFFFE)
                       /\ yielded[i].name = Str(<< 233, 8364, 128512 >>)

\* The record at the start of buf is cut short: no room for a header, or
\* fewer name bytes than the header declares.
TruncatedAt(buf) ==
    /\ buf # << >>
    /\ \/ Len(buf) < offset
       \/ c_uint32_int(SubSeq(buf, 13, 16)) > Len(buf) - offset

\* C3: a record cut short at the current decode offset is reported as an
\* error and no event is yielded for it.
C3_TruncationSafety ==
    (gen.pc \in {"yielded", "error"}
     /\ gen.at \notin {"select", "read", "register"}
     /\ TruncatedAt(gen.buf)) => gen.pc = "error"

\* C4: the name of every yielded event is None, or a non-empty text that
\* does not end in NUL.
C4_NameAbsentOrNonEmpty ==
    \A i \in 1..Len(yielded) :
        LET n == yielded[i].name
        IN  IF n.some THEN n.text # << >> /\ n.text[Len(n.text)] # 0 ELSE n = None

C4_Witness ==
    /\ ValidBuffer
    /\ Len(yielded) = 2
    /\ sent[1].field = Nuls(2) /\ yielded[1].name = None
    /\ sent[2].field = << >> /\ yielded[2].name = None

\* C5: when the readiness wait reports not ready, the call ends with no
\* event and no error, and neither reads the descriptor nor decodes.
C5_NotReadyIsEmpty ==
    (prims # << >> /\ prims[1] = Call("select", "timeout")) =>
        /\ gen.pc = "done"
        /\ yielded = << >>
        /\ prims = << Call("select", "timeout") >>
        /\ rawbuf = << >>
        /\ gen.timeout \in {"zero", "positive"}

C5_Witness ==
    /\ gen.pc = "done"
    /\ gen.timeout = "zero"
    /\ prims = << Call("select", "timeout") >>
    /\ yielded = << >>

\* C6: a call makes exactly one readiness wait, as its first primitive, and
\* exactly one raw read, of at most BUF_LEN bytes, iff the wait reported the
\* descriptor readable; every event is yielded after that read and nothing
\* is invoked afterwards; a new call starts with empty buffer and log.
C6_OneWaitOneRead ==
    /\ gen.pc = "created" =>
         (prims = << >> /\ yielded = << >> /\ rawbuf = << >> /\ gen.buf = << >>
          /\ gen.len = 0 /\ gen.keys = 0)
    /\ (Started /\ gen.at # "register") =>
         /\ prims # << >>
         /\ prims[1].prim = "select"
         /\ Waits(prims) = 1
         /\ Reads(prims) = (IF prims[1].res = "ready" THEN 1 ELSE 0)
         /\ Len(prims) = Waits(prims) + Reads(prims)
         /\ Len(rawbuf) <= BUF_LEN
         /\ yielded # << >> => prims = << Call("select", "ready"), Call("read", "ok") >>

C6_Witness ==
    /\ gen.pc = "done"
    /\ Len(yielded) = 2
    /\ prims = << Call("select", "ready"), Call("read", "ok") >>
    /\ gen.buf = << >>

\* C7: os.close of the channel descriptor is invoked at most once in the
\* life of a session.
C7_RawCloseAtMostOnce == rawCloses <= 1

\* C8: once the with block is left the descriptor has been closed exactly
\* once and the registration released exactly once.
C8_ScopedRelease == scope = "left" => (rawCloses = 1 /\ releases = 1)

\* The entries of the vocabulary whose bits are not none and all in mask,
\* in the order of the vocabulary.
Matching(mask) ==
    LET Test(e) == e.value # {} /\ e.value \subseteq mask
    IN  SelectSeq(constants, Test)

Mentions(text, name) == \E i \in 1..Len(text) : text[i] = name

C10_NoBufLen == ~ Mentions(desc, "BUF_LEN")

\* The value a name of the description stands for when the text is
\* evaluated in the module: the global of that name.
ValueOf(name) ==
    LET i == CHOOSE j \in 1..Len(constants) : constants[j].name = name
    IN  constants[i].value

\* eval(text): the bitwise OR of the names of the text, 0 for "0".
Eval(text) ==
    UNION {ValueOf(text[i]) : i \in {j \in 1..Len(text) : text[j] \notin {"|", "0"}}}

\* C11: evaluating the description of a mask as the bitwise OR of the
\* constants it names (0 for "0") gives back exactly the mask.
C11_DescriptionRoundTrip == desc # << >> => Eval(desc) = dmask

\* The steps of the decode loop that can raise.
DecodeSteps == {"from_buffer_copy", "decode"}

\* The call in progress is one of Inotify.get_events, consumed by next().
ByEvents == gen.pc # "none" /\ ret.op # "get_events"

\* The records of sent that cannot be decoded: a name that is not UTF-8.
Undecodable == {i \in 1..Len(sent) : ~ TextName(sent[i])}

\* C12: when decoding fails at record k+1 of the buffer read, the consumer
\* of events() has been given exactly the events of the k records before
\* it, in order, then the decode error; and once the error is raised the
\* generator yields nothing more.
C12_PartialThenError ==
    /\ [](ByEvents =>
            /\ (ValidBuffer /\ Undecodable # {}) =>
                 LET k == (CHOOSE i \in Undecodable : \A j \in Undecodable : i <= j) - 1
                 IN  /\ Len(yielded) <= k
                     /\ gen.pc \in {"done", "error"} =>
                          (gen.pc = "error" /\ gen.at = "decode"
                           /\ gen.err = "UnicodeDecodeError" /\ Len(yielded) = k)
            /\ (gen.pc = "error" /\ gen.at \in DecodeSteps) =>
                 /\ Len(yielded) < Len(sent)
                 /\ \A i \in 1..Len(yielded) : Carries(yielded[i], sent[i]))
    /\ [][gen.pc = "error" =>
            (gen'.pc \in {"error", "created", "none"} /\ yielded' \in {yielded, << >>})]_vars

C12_Witness ==
    /\ ByEvents
    /\ ValidBuffer
    /\ Len(sent) = 2
    /\ TextName(sent[1]) /\ ~ TextName(sent[2])
    /\ gen.pc = "error" /\ gen.at = "decode"
    /\ Len(yielded) = 1 /\ yielded[1].name = Str(<< 102, 111, 111 >>)

\* The call ended without an error and without having yielded an event.
SilentlyEmpty == gen.pc = "done" /\ yielded = << >>

ErrorOut == ByEvents /\ gen.pc = "error" /\ gen.at \in DecodeSteps \cup {"read"}

\* C14: an error raised out of events() changes nothing of the session: the
\* step that raises leaves descriptor, selector and registration as they
\* were, so on a session that was not closed the descriptor is still open
\* and registered, and the call that follows finds the same descriptor.
C14_ErrorLeavesSession ==
    /\ []((ErrorOut /\ closes = 0) =>
            (obj = "live" /\ fdSlot = "inotify" /\ selector = "registered"
             /\ rawCloses = 0 /\ releases = 0))
    /\ [][(gen.pc # "error" /\ gen'.pc = "error") => UNCHANGED sessionVars]_vars
    /\ [][(ErrorOut /\ closes' = 0) => UNCHANGED <<obj, fdSlot, selector>>]_vars

C14_Witness ==
    /\ ErrorOut
    /\ gen.at = "read" /\ gen.err = "OSError"
    /\ obj = "live" /\ fdSlot = "inotify" /\ selector = "registered"

\* The libc function behind each operation.
LibcFn(op) ==
    IF op = "init" THEN "inotify_init"
    ELSE IF op = "add_watch" THEN "inotify_add_watch"
    ELSE "inotify_rm_watch"

\* C15: init, add_watch and rm_watch raise IOError with the message of the
\* platform's errno when libc answers a negative result, and return exactly
\* libc's result otherwise, so no negative value is ever returned; add_watch
\* and rm_watch change nothing of the session.
C15_RaiseOrReturn ==
    /\ [](ret.op \in {"init", "add_watch", "rm_watch"} =>
            /\ libc.fn = LibcFn(ret.op)
            /\ IF libc.res < 0
               THEN ret.raised /\ ret.exc = "IOError" /\ ret.arg = strerror(libc.errno)
               ELSE ~ ret.raised /\ ret.val = libc.res /\ ret.exc = "none"
            /\ ~ ret.raised => ret.val >= 0)
    /\ [][(libc' # libc /\ libc'.fn \in {"inotify_add_watch", "inotify_rm_watch"}) =>
            UNCHANGED sessionVars]_vars

C15_Witness ==
    /\ ret.op = "add_watch"
    /\ ret.raised /\ ret.exc = "IOError" /\ ret.arg = strerror(ENOSPC)
    /\ libc = [fn |-> "inotify_add_watch", on |-> "inotify", res |-> -1, errno |-> ENOSPC]
    /\ obj = "live" /\ fdSlot = "inotify" /\ selector = "registered"

\* The readiness wait of the current call was interrupted.
Interrupted == prims # << >> /\ prims[1] = Call("select", "interrupt")

\* C16: when the readiness wait is interrupted, the call makes no raw read
\* and no second wait, yields no event, and ends by raising
\* KeyboardInterrupt to the caller: neither an empty result nor an OSError.
C16_InterruptPropagates ==
    /\ [](Interrupted =>
            /\ prims = << Call("select", "interrupt") >>
            /\ Waits(prims) = 1 /\ Reads(prims) = 0
            /\ yielded = << >> /\ rawbuf = << >>
            /\ gen.pc = "error" /\ gen.at = "select"
            /\ gen.err = "KeyboardInterrupt")
    /\ [][Interrupted => (prims' \in {prims, << >>} /\ yielded' = << >>)]_vars

C16_Witness ==
    /\ ByEvents
    /\ gen.timeout = "None"
    /\ Interrupted
    /\ gen.pc = "error" /\ gen.err = "KeyboardInterrupt"
    /\ obj = "live" /\ selector = "registered"

\* C17: the decode loop comes to an end on every buffer read: a step from a
\* yield either raises or goes on with a remaining buffer shorter by at
\* least the header size, so the events yielded never outnumber the headers
\* the buffer has room for, and a call that ends normally has used it up.
C17_DecodeTerminates ==
    /\ [](/\ gen.pc = "yielded" =>
               (/\ Len(gen.buf) >= offset
                /\ Len(gen.buf) <= Len(rawbuf) - (Len(yielded) - 1) * offset)
          /\ (gen.pc = "error" /\ gen.at \in DecodeSteps) =>
               Len(gen.buf) <= Len(rawbuf) - Len(yielded) * offset
          /\ Started => Len(yielded) * offset <= Len(rawbuf)
          /\ gen.pc = "done" => gen.buf = << >>)
    /\ [][(gen.pc = "yielded" /\ gen' # gen) =>
            /\ gen'.pc \in {"yielded", "done", "error"}
            /\ Len(gen'.buf) = Max(0, Len(gen.buf) - (offset + gen.len))
            /\ Len(gen'.buf) <= Len(gen.buf) - offset]_vars

C17_Witness ==
    /\ ByEvents
    /\ short > 0
    /\ Len(yielded) = 1
    /\ gen.pc = "error" /\ gen.at = "from_buffer_copy"
    /\ gen.buf # << >> /\ Len(gen.buf) < offset

\* The entries of a log of primitives that reached the platform: a select
\* on a closed selector raises before it waits.
Reached(p) == {i \in 1..Len(p) : p[i].res # "ValueError"}

\* C18: once close() has completed, no operation of the session invokes a
\* platform primitive on the closed descriptor number: add_watch and
\* rm_watch do not call libc with it, and events(), started before or
\* after the close, neither waits on it nor reads it.
C18_NoPrimitiveAfterClose ==
    /\ [](libc.fn \in {"inotify_add_watch", "inotify_rm_watch"} => libc.on = "inotify")
    /\ [][(closes >= 1 /\ ByEvents' /\ prims' # << >>) =>
            (Len(prims) <= Len(prims') /\ Reached(prims') \subseteq 1..Len(prims))]_vars

\* C19: when Inotify() raises, whichever of its three steps failed, the
\* channel descriptor it opened is not left open.
C19_ConstructionAllOrNothing == obj = "failed" => fdSlot # "inotify"

====
